---------------------------- MODULE Spec2Model ----------------------------
(***************************************************************************)
(* A model of rustfuck (src/src/main.rs, src/src/cell_size.rs): the        *)
(* tokenizer, the three peephole passes, the loop linker and the           *)
(* execution engine.                                                       *)
(*                                                                         *)
(* main is modelled for both settings of its do_optimize flag at once:     *)
(* ast[TRUE] and run[TRUE] belong to the run with optimization,            *)
(* ast[FALSE] and run[FALSE] to the run with --no-optimize, on the same    *)
(* source, input, cell size and tape size.  The two runs never interact;   *)
(* they advance side by side so that their outcomes can be compared.       *)
(* replace_vec is the ReplaceVec handed to replace_in_ast where that       *)
(* function is run by itself, and empty elsewhere.                         *)
(*                                                                         *)
(* Indices (token positions, jump targets, the data pointer) are 0-based   *)
(* as in the source; At(ast, i) reads position i of a TLA+ sequence.       *)
(*                                                                         *)
(* A cell of width w is a little-endian tuple of digits: one digit base    *)
(* 2^8 for u8, one digit base 2^16 for u16, two resp. four digits base     *)
(* 2^16 for u32 and u64 (the model checker's integers are 32-bit).  The    *)
(* tape Vec<T> is its length and its non-zero cells.                       *)
(***************************************************************************)
EXTENDS Integers, Sequences, FiniteSets, TLC

VARIABLES raw, tape_size, cell_size, stdin, pc, ast, prev, run, replace_vec

vars == <<raw, tape_size, cell_size, stdin, pc, ast, prev, run, replace_vec>>

(***************************************************************************)
(* Tokens                                                                  *)
(***************************************************************************)
TokenType == {"Invalid", "End", "Add", "Sub", "Left", "Right", "Out", "In",
              "LoopStart", "LoopEnd", "Set", "Move"}

Token(tk, value) == [tk |-> tk, value |-> value]

At(s, i) == s[i + 1]

(***************************************************************************)
(* parse: one token per command character, every other character ignored,  *)
(* End appended last.                                                      *)
(***************************************************************************)
parse_char(c) ==
    CASE c = "+" -> <<Token("Add", 1)>>
      [] c = "-" -> <<Token("Sub", 1)>>
      [] c = ">" -> <<Token("Right", 1)>>
      [] c = "<" -> <<Token("Left", 1)>>
      [] c = "." -> <<Token("Out", 0)>>
      [] c = "," -> <<Token("In", 0)>>
      [] c = "[" -> <<Token("LoopStart", -1)>>
      [] c = "]" -> <<Token("LoopEnd", -1)>>
      [] OTHER   -> <<>>

IsCommand(c) == parse_char(c) # <<>>

parse(src) ==
    LET commands == SelectSeq(src, IsCommand)
    IN  [i \in 1..Len(commands) |-> parse_char(commands[i])[1]]
            \o <<Token("End", 0)>>

(***************************************************************************)
(* replace_in_ast: the replacements (start, end, token), start included    *)
(* and end excluded, applied last to first: drain(start..end), then        *)
(* insert(start, token).                                                   *)
(***************************************************************************)
Replacement(start, end, token) == [start |-> start, end |-> end, token |-> token]

Reverse(s) == [i \in 1..Len(s) |-> s[Len(s) + 1 - i]]

drain(a, start, end) == SubSeq(a, 1, start) \o SubSeq(a, end + 1, Len(a))

insert(a, start, token) ==
    SubSeq(a, 1, start) \o <<token>> \o SubSeq(a, start + 1, Len(a))

RECURSIVE replace_each(_, _)
replace_each(a, reps) ==
    IF reps = <<>> THEN a
    ELSE LET r == Head(reps)
         IN  replace_each(insert(drain(a, r.start, r.end), r.start, r.token),
                          Tail(reps))

\* A variant of replace_in_ast that applies the replacements first to last.
replace_in_ast_forward(a, replacements) == replace_each(a, replacements)

replace_in_ast(a, replacements) == replace_each(a, Reverse(replacements))

(***************************************************************************)
(* pass_collapse_duplicated                                                *)
(*                                                                         *)
(* The loops `for (i, node) in ast.iter().enumerate()` of the passes and   *)
(* of link_loops are the scans below: scan(a, lo, hi, st) is the state     *)
(* after the iterations lo <= i < hi from state st, in order (the range    *)
(* is halved; the test first = first has the first half evaluated before   *)
(* the second is entered).                                                 *)
(***************************************************************************)
\* A variant of IsCollapsible that leaves Left out.
IsCollapsibleButLeft(tk) == tk \in {"Add", "Sub", "Right"}

IsCollapsible(tk) == tk \in {"Add", "Sub", "Left", "Right"}

\* A variant of collapse_step that does not start a new run on the token
\* that ends a run of two or more.
collapse_step_no_restart(st, i, node) ==
    IF node.tk = st.current
    THEN [st EXCEPT !.count = st.count + 1]
    ELSE IF st.count > 1
    THEN [start |-> st.start, count |-> 0, current |-> "Invalid",
          replace |-> Append(st.replace,
                             Replacement(st.start, i,
                                         Token(st.current, st.count)))]
    ELSE IF IsCollapsible(node.tk)
    THEN [start |-> i, count |-> 1, current |-> node.tk,
          replace |-> st.replace]
    ELSE [start |-> st.start, count |-> 0, current |-> "Invalid",
          replace |-> st.replace]

collapse_step(st, i, node) ==
    IF node.tk = st.current
    THEN [st EXCEPT !.count = st.count + 1]
    ELSE LET replace == IF st.count > 1
                        THEN Append(st.replace,
                                    Replacement(st.start, i,
                                                Token(st.current, st.count)))
                        ELSE st.replace
         IN  IF IsCollapsible(node.tk)
             THEN [start |-> i, count |-> 1, current |-> node.tk,
                   replace |-> replace]
             ELSE [start |-> st.start, count |-> 0, current |-> "Invalid",
                   replace |-> replace]

RECURSIVE collapse_scan(_, _, _, _)
collapse_scan(a, lo, hi, st) ==
    IF hi <= lo THEN st
    ELSE IF hi = lo + 1 THEN collapse_step(st, lo, At(a, lo))
    ELSE LET mid == (lo + hi) \div 2
             first == collapse_scan(a, lo, mid, st)
         IN  IF first = first THEN collapse_scan(a, mid, hi, first) ELSE first

pass_collapse_duplicated(a) ==
    LET st == collapse_scan(a, 0, Len(a), [start |-> 0, count |-> 0,
                                           current |-> "Invalid",
                                           replace |-> <<>>])
    IN  replace_in_ast(a, st.replace)

(***************************************************************************)
(* pass_zero_cell                                                          *)
(***************************************************************************)
\* Rust's % on i32: the remainder takes the sign of the dividend.
RemI32(a, b) == IF a >= 0 THEN a % b ELSE 0 - ((0 - a) % b)

IsOddStep(node) == node.tk \in {"Sub", "Add"} /\ RemI32(node.value, 2) = 1

\* A variant of zero_step that takes whatever follows the odd step for the
\* end of the loop.
zero_step_any_end(st, i, node) ==
    IF st.progress = 0 /\ node.tk = "LoopStart"
    THEN [st EXCEPT !.progress = 1]
    ELSE IF st.progress = 1 /\ IsOddStep(node)
    THEN [st EXCEPT !.progress = 2]
    ELSE IF st.progress = 2 /\ node.tk # "End"
    THEN [progress |-> 0,
          replace |-> Append(st.replace,
                             Replacement(i - 2, i + 1, Token("Set", 0)))]
    ELSE [st EXCEPT !.progress = 0]

zero_step(st, i, node) ==
    IF st.progress = 0 /\ node.tk = "LoopStart"
    THEN [st EXCEPT !.progress = 1]
    ELSE IF st.progress = 1 /\ IsOddStep(node)
    THEN [st EXCEPT !.progress = 2]
    ELSE IF st.progress = 2 /\ node.tk = "LoopEnd"
    THEN [progress |-> 0,
          replace |-> Append(st.replace,
                             Replacement(i - 2, i + 1, Token("Set", 0)))]
    ELSE [st EXCEPT !.progress = 0]

RECURSIVE zero_scan(_, _, _, _)
zero_scan(a, lo, hi, st) ==
    IF hi <= lo THEN st
    ELSE IF hi = lo + 1 THEN zero_step(st, lo, At(a, lo))
    ELSE LET mid == (lo + hi) \div 2
             first == zero_scan(a, lo, mid, st)
         IN  IF first = first THEN zero_scan(a, mid, hi, first) ELSE first

pass_zero_cell(a) ==
    replace_in_ast(a, zero_scan(a, 0, Len(a),
                                [progress |-> 0, replace |-> <<>>]).replace)

(***************************************************************************)
(* pass_move_value                                                         *)
(***************************************************************************)
\* A variant of MoveBack that does not compare the step counts.
MoveBackAnyCount(st, node) == node.tk = st.next_direction

MoveBack(st, node) == node.tk = st.next_direction /\ node.value = st.move_count

move_step(st, i, node) ==
    IF st.progress = 0 /\ node.tk = "LoopStart"
    THEN [st EXCEPT !.progress = 1]
    ELSE IF st.progress = 1 /\ node.tk = "Sub" /\ node.value = 1
    THEN [st EXCEPT !.progress = 2]
    ELSE IF st.progress = 2 /\ node.tk \in {"Left", "Right"}
    THEN [st EXCEPT !.next_direction =
                        IF node.tk = "Left" THEN "Right" ELSE "Left",
                    !.move_count = node.value,
                    !.progress = 3]
    ELSE IF st.progress = 3 /\ node.tk = "Add" /\ node.value = 1
    THEN [st EXCEPT !.progress = 4]
    ELSE IF st.progress = 4 /\ MoveBack(st, node)
    THEN [st EXCEPT !.progress = 5]
    ELSE IF st.progress = 5 /\ node.tk = "LoopEnd"
    THEN [st EXCEPT !.progress = 0,
                    !.replace =
                        Append(st.replace,
                               Replacement(i - 5, i + 1,
                                   Token("Move",
                                         st.move_count *
                                         (IF st.next_direction = "Right"
                                          THEN -1 ELSE 1))))]
    ELSE [st EXCEPT !.progress = 0]

RECURSIVE move_scan(_, _, _, _)
move_scan(a, lo, hi, st) ==
    IF hi <= lo THEN st
    ELSE IF hi = lo + 1 THEN move_step(st, lo, At(a, lo))
    ELSE LET mid == (lo + hi) \div 2
             first == move_scan(a, lo, mid, st)
         IN  IF first = first THEN move_scan(a, mid, hi, first) ELSE first

pass_move_value(a) ==
    replace_in_ast(a, move_scan(a, 0, Len(a),
                                [progress |-> 0, replace |-> <<>>,
                                 next_direction |-> "Invalid",
                                 move_count |-> -1]).replace)

optimize(a) == pass_move_value(pass_zero_cell(pass_collapse_duplicated(a)))

(***************************************************************************)
(* link_loops: res is "Ok" or the error; after an error (the early return) *)
(* the remaining iterations do nothing.                                    *)
(***************************************************************************)
ErrUnmatchedEnd == "Unmatched ]"
ErrUnmatchedStart == "Unmatched ["

\* A variant of link_step that closes the loop opened first, not last.
link_step_oldest_first(st, i) ==
    LET tk == At(st.ast, i).tk
    IN  IF st.res # "Ok" THEN st
        ELSE IF tk = "LoopStart"
        THEN [st EXCEPT !.loop_stack = Append(st.loop_stack, i)]
        ELSE IF tk = "LoopEnd"
        THEN IF st.loop_stack = <<>>
             THEN [st EXCEPT !.res = ErrUnmatchedEnd]
             ELSE LET jmp == Head(st.loop_stack)
                  IN  [st EXCEPT
                         !.loop_stack = Tail(st.loop_stack),
                         !.ast = [st.ast EXCEPT ![i + 1].value = jmp,
                                                ![jmp + 1].value = i]]
        ELSE st

link_step(st, i) ==
    LET tk == At(st.ast, i).tk
    IN  IF st.res # "Ok" THEN st
        ELSE IF tk = "LoopStart"
        THEN [st EXCEPT !.loop_stack = Append(st.loop_stack, i)]
        ELSE IF tk = "LoopEnd"
        THEN IF st.loop_stack = <<>>
             THEN [st EXCEPT !.res = ErrUnmatchedEnd]
             ELSE LET jmp == st.loop_stack[Len(st.loop_stack)]
                  IN  [st EXCEPT
                         !.loop_stack = SubSeq(st.loop_stack, 1,
                                               Len(st.loop_stack) - 1),
                         !.ast = [st.ast EXCEPT ![i + 1].value = jmp,
                                                ![jmp + 1].value = i]]
        ELSE st

RECURSIVE link_scan(_, _, _)
link_scan(lo, hi, st) ==
    IF hi <= lo THEN st
    ELSE IF hi = lo + 1 THEN link_step(st, lo)
    ELSE LET mid == (lo + hi) \div 2
             first == link_scan(lo, mid, st)
         IN  IF first = first THEN link_scan(mid, hi, first) ELSE first

\* A variant of link_loops without the check for loops left open.
link_loops_unchecked(a) ==
    LET st == link_scan(0, Len(a),
                        [ast |-> a, loop_stack |-> <<>>, res |-> "Ok"])
    IN  [ast |-> st.ast, res |-> st.res]

link_loops(a) ==
    LET st == link_scan(0, Len(a),
                        [ast |-> a, loop_stack |-> <<>>, res |-> "Ok"])
    IN  [ast |-> st.ast,
         res |-> IF st.res # "Ok" THEN st.res
                 ELSE IF Len(st.loop_stack) > 0 THEN ErrUnmatchedStart
                 ELSE "Ok"]

(***************************************************************************)
(* CellSize for u8, u16, u32, u64                                          *)
(***************************************************************************)
CellSizes == {8, 16, 32, 64}

Base(w) == IF w = 8 THEN 256 ELSE 65536

NDigits(w) == IF w <= 16 THEN 1 ELSE w \div 16

\* One item of get_zeroes' iterator.
ZeroCell(w) == [i \in 1..NDigits(w) |-> 0]

\* iter::repeat(0).take(count)
get_zeroes(count, w) == [n |-> count, item |-> ZeroCell(w)]

\* A variant of wrapping_add that saturates at the largest value.
saturating_add(a, b, w) ==
    LET sum[i \in 0..NDigits(w)] ==
            IF i = 0 THEN 0 ELSE a[i] + b[i] + (sum[i - 1] \div Base(w))
    IN  IF sum[NDigits(w)] >= Base(w)
        THEN [i \in 1..NDigits(w) |-> Base(w) - 1]
        ELSE [i \in 1..NDigits(w) |-> sum[i] % Base(w)]

wrapping_add(a, b, w) ==
    LET sum[i \in 0..NDigits(w)] ==
            IF i = 0 THEN 0 ELSE a[i] + b[i] + (sum[i - 1] \div Base(w))
    IN  [i \in 1..NDigits(w) |-> sum[i] % Base(w)]

wrapping_sub(a, b, w) ==
    LET dif[i \in 0..NDigits(w)] ==
            IF i = 0 THEN 0
            ELSE a[i] - b[i] - (IF dif[i - 1] < 0 THEN 1 ELSE 0)
    IN  [i \in 1..NDigits(w) |-> dif[i] % Base(w)]

add_to_cell(cell, value, w) == wrapping_add(cell, value, w)

\* A variant of sub_from_cell that adds.
sub_from_cell_adding(cell, value, w) == wrapping_add(cell, value, w)

sub_from_cell(cell, value, w) == wrapping_sub(cell, value, w)

is_zero(cell) == \A i \in DOMAIN cell : cell[i] = 0

is_nonzero(cell) == \E i \in DOMAIN cell : cell[i] > 0

\* A variant of from_stdout that sign-extends the byte.
from_stdout_signed(c, w) ==
    [i \in 1..NDigits(w) |->
        IF i = 1 THEN (IF w = 8 \/ c < 128 THEN c ELSE Base(w) - 256 + c)
        ELSE (IF c < 128 THEN 0 ELSE Base(w) - 1)]

\* c as uN: the byte zero-extended.
from_stdout(c, w) == [i \in 1..NDigits(w) |-> IF i = 1 THEN c ELSE 0]

\* *self as u8: the low 8 bits.
to_stdin(cell) == cell[1] % 256

\* v as uN for v: i32: truncated (u8, u16) or sign-extended (u32, u64).
from_tk_value(v, w) ==
    LET q[i \in 1..NDigits(w)] == IF i = 1 THEN v ELSE q[i - 1] \div Base(w)
    IN  [i \in 1..NDigits(w) |-> q[i] % Base(w)]

(***************************************************************************)
(* The tape, cells: Vec<T>                                                 *)
(***************************************************************************)
TapeGrowth == 1000

Tape(len, nz) == [len |-> len, nz |-> nz]

InTape(cells, i) == 0 <= i /\ i < cells.len

\* cells[i], for i inside the tape
ReadCell(cells, i, w) ==
    IF i \in DOMAIN cells.nz THEN cells.nz[i] ELSE ZeroCell(w)

\* cells[i] = v, for i inside the tape
WriteCell(cells, i, v) ==
    Tape(cells.len,
         IF is_zero(v)
         THEN [j \in DOMAIN cells.nz \ {i} |-> cells.nz[j]]
         ELSE [j \in DOMAIN cells.nz \cup {i} |->
                  IF j = i THEN v ELSE cells.nz[j]])

\* cells.extend(iter)
extend(cells, iter) ==
    Tape(cells.len + iter.n,
         IF is_zero(iter.item) THEN cells.nz
         ELSE [j \in DOMAIN cells.nz \cup (cells.len..(cells.len + iter.n - 1)) |->
                  IF j < cells.len THEN cells.nz[j] ELSE iter.item])

\* let mut cells: Vec<T> = T::get_zeroes(1000).collect();
InitialCells(w) == extend(Tape(0, <<>>), get_zeroes(TapeGrowth, w))

\* The growth of the tape in Right and Move: pos is new_pos resp. dest.
\* A variant of GrowAmount without the 1000 extra cells.
GrowAmountExact(cells, pos) == pos - cells.len

GrowAmount(cells, pos) == pos - cells.len + TapeGrowth

NeedsGrowth(cells, pos) == pos > cells.len

Grow(cells, pos, w) ==
    IF NeedsGrowth(cells, pos)
    THEN extend(cells, get_zeroes(GrowAmount(cells, pos), w))
    ELSE cells

(***************************************************************************)
(* execute: one iteration of the dispatch loop.  status is "running", "Ok" *)
(* (End reached), the returned error, or Panic: an index outside the Vec   *)
(* aborts the process.                                                     *)
(***************************************************************************)
ErrTapeSize == "Tape size must be greater than 0"
ErrLeft == "Data pointer moved out of bounds (too far left)"
ErrRight == "Data pointer moved out of bounds (too far right)"
ErrCellSize == "Unsupported cell size"
Panic == "panic: index out of bounds"

Stop(m, status) == [m EXCEPT !.status = status]

Advance(m) == [m EXCEPT !.instruction_pointer = m.instruction_pointer + 1]

Current(m, w) == ReadCell(m.cells, m.data_pointer, w)

SetCurrent(m, v) == [m EXCEPT !.cells = WriteCell(m.cells, m.data_pointer, v)]

\* A variant of LeftFails that lets the pointer go one cell too far.
LeftFailsLate(m, token) == m.data_pointer + 1 < token.value

LeftFails(m, token) == m.data_pointer < token.value

\* A variant of RightFails that accepts the position tapeSize itself.
RightFailsPastEnd(pos, tapeSize) == pos > tapeSize

RightFails(pos, tapeSize) == pos >= tapeSize

exec_add(m, token, w) ==
    Advance(SetCurrent(m, add_to_cell(Current(m, w), from_tk_value(token.value, w), w)))

exec_sub(m, token, w) ==
    Advance(SetCurrent(m, sub_from_cell(Current(m, w), from_tk_value(token.value, w), w)))

exec_left(m, token) ==
    IF LeftFails(m, token) THEN Stop(m, ErrLeft)
    ELSE Advance([m EXCEPT !.data_pointer = m.data_pointer - token.value])

exec_right(m, token, tapeSize, w) ==
    LET new_pos == m.data_pointer + token.value
    IN  IF RightFails(new_pos, tapeSize) THEN Stop(m, ErrRight)
        ELSE Advance([m EXCEPT !.cells = Grow(m.cells, new_pos, w),
                               !.data_pointer = m.data_pointer + token.value])

\* A variant of exec_loop_start that lands on the LoopEnd, not after it.
exec_loop_start_to_end(m, token, w) ==
    IF is_zero(Current(m, w))
    THEN [m EXCEPT !.instruction_pointer = token.value]
    ELSE Advance(m)

exec_loop_start(m, token, w) ==
    IF is_zero(Current(m, w))
    THEN Advance([m EXCEPT !.instruction_pointer = token.value])
    ELSE Advance(m)

\* A variant of exec_loop_end that never repeats the loop.
exec_loop_end_once(m, token, w) == Advance(m)

exec_loop_end(m, token, w) ==
    IF is_nonzero(Current(m, w))
    THEN Advance([m EXCEPT !.instruction_pointer = token.value])
    ELSE Advance(m)

\* read_exact fills buf or reports UnexpectedEof (treated as 0).
exec_in(m, w) ==
    IF m.stdin # <<>>
    THEN Advance(SetCurrent([m EXCEPT !.stdin = Tail(m.stdin)],
                            from_stdout(Head(m.stdin), w)))
    ELSE Advance(SetCurrent(m, from_tk_value(0, w)))

exec_out(m, w) ==
    Advance([m EXCEPT !.stdout = Append(m.stdout, to_stdin(Current(m, w)))])

exec_set(m, token, w) == Advance(SetCurrent(m, from_tk_value(token.value, w)))

\* A variant of exec_move that leaves the source cell as it is.
exec_move_keeping_source(m, token, tapeSize, w) ==
    IF is_nonzero(Current(m, w))
    THEN LET dest == m.data_pointer + token.value
         IN  IF dest < 0 THEN Stop(m, ErrLeft)
             ELSE IF RightFails(dest, tapeSize) THEN Stop(m, ErrRight)
             ELSE LET grown == Grow(m.cells, dest, w)
                      val == Current(m, w)
                  IN  IF ~InTape(grown, dest) THEN Stop([m EXCEPT !.cells = grown], Panic)
                      ELSE Advance([m EXCEPT !.cells =
                              WriteCell(grown, dest,
                                        add_to_cell(ReadCell(grown, dest, w), val, w))])
    ELSE Advance(m)

exec_move(m, token, tapeSize, w) ==
    IF is_nonzero(Current(m, w))
    THEN LET dest == m.data_pointer + token.value
         IN  IF dest < 0 THEN Stop(m, ErrLeft)
             ELSE IF RightFails(dest, tapeSize) THEN Stop(m, ErrRight)
             ELSE LET grown == Grow(m.cells, dest, w)
                      val == Current(m, w)
                  IN  IF ~InTape(grown, dest) THEN Stop([m EXCEPT !.cells = grown], Panic)
                      ELSE Advance([m EXCEPT !.cells =
                              WriteCell(WriteCell(grown, dest,
                                            add_to_cell(ReadCell(grown, dest, w), val, w)),
                                        m.data_pointer, from_tk_value(0, w))])
    ELSE Advance(m)

AccessesCell(tk) ==
    tk \in {"Add", "Sub", "LoopStart", "LoopEnd", "In", "Out", "Set", "Move"}

execute_step(m, a, tapeSize, w) ==
    LET token == At(a, m.instruction_pointer)
    IN  IF AccessesCell(token.tk) /\ ~InTape(m.cells, m.data_pointer)
        THEN Stop(m, Panic)
        ELSE CASE token.tk = "Add"       -> exec_add(m, token, w)
               [] token.tk = "Sub"       -> exec_sub(m, token, w)
               [] token.tk = "Left"      -> exec_left(m, token)
               [] token.tk = "Right"     -> exec_right(m, token, tapeSize, w)
               [] token.tk = "LoopStart" -> exec_loop_start(m, token, w)
               [] token.tk = "LoopEnd"   -> exec_loop_end(m, token, w)
               [] token.tk = "In"        -> exec_in(m, w)
               [] token.tk = "Out"       -> exec_out(m, w)
               [] token.tk = "Set"       -> exec_set(m, token, w)
               [] token.tk = "Move"      -> exec_move(m, token, tapeSize, w)
               [] token.tk = "End"       -> Stop(m, "Ok")
               [] OTHER                  -> Advance(m)

\* The state of execute before its first iteration, or its early return.
execute_start(tapeSize, w, input) ==
    LET m == [instruction_pointer |-> 0, data_pointer |-> 0,
              cells |-> InitialCells(w), stdin |-> input, stdout |-> <<>>,
              status |-> "running"]
    IN  IF tapeSize < 1 THEN Stop(m, ErrTapeSize) ELSE m

\* A run that ends before execute: a link error, or main's match on cell_size.
NotExecuted(status) ==
    [instruction_pointer |-> 0, data_pointer |-> 0, cells |-> Tape(0, <<>>),
     stdin |-> <<>>, stdout |-> <<>>, status |-> status]

\* main, from link_loops on, for one setting of do_optimize.
main_link(a, tapeSize, w, input) ==
    LET l == link_loops(a)
    IN  [ast |-> l.ast,
         run |-> IF l.res # "Ok" THEN NotExecuted(l.res)
                 ELSE IF w \notin CellSizes THEN NotExecuted(ErrCellSize)
                 ELSE execute_start(tapeSize, w, input)]

(***************************************************************************)
(* The inputs: source texts, tape sizes, cell sizes and input streams.     *)
(***************************************************************************)
Commands == {"+", "-", ">", "<", ".", ",", "[", "]"}

Idioms == { <<"[", "-", "]">>,
            <<"[", "-", ">", "+", "<", "]">>,
            <<"[", "-", "<", "+", ">", "]">> }

Fragments == { <<c>> : c \in Commands } \cup Idioms

MaxFragments == 3
MaxTape == 2
MaxOutput == 3
BigTape == 2003
DefaultTape == 30000
DefaultCellSize == 8

\* Every source text made of at most n fragments.
RECURSIVE Sources(_)
Sources(n) ==
    IF n = 0 THEN { <<>> }
    ELSE LET shorter == Sources(n - 1)
         IN  shorter \cup { s \o f : s \in shorter, f \in Fragments }

HasInput(src) == \E i \in 1..Len(src) : src[i] = ","

\* The input streams tried with a source: none but the empty one when the
\* source reads no input.
Inputs(src) == IF HasInput(src) THEN { <<>>, <<2>> } ELSE { <<>> }

Config(src, tapeSize, w, input) ==
    [raw |-> src, tape_size |-> tapeSize, cell_size |-> w, stdin |-> input]

ConfigsOf(sources, tapeSize, w) ==
    UNION { { Config(src, tapeSize, w, input) : input \in Inputs(src) } :
                src \in sources }

\* Every source of at most MaxFragments fragments on a tape of MaxTape
\* cells, and the shorter ones on a tape of one cell.
SmallConfigs ==
    ConfigsOf(Sources(MaxFragments), MaxTape, DefaultCellSize)
    \cup ConfigsOf(Sources(MaxFragments - 1), 1, DefaultCellSize)

Hello == <<"+", "+", "+", ".">>

Times8 == <<"+", "+", "+", "+", "+", "+", "+", "+", "[", ">",
            "+", "+", "+", "+", "+", "+", "+", "+", "<", "-", "]", ">", ".">>

\* Walks right in steps of three, marking each cell it stops on.
Stride3 == <<"+", "[", ">", ">", ">", "+", "]">>

\* Loops that resemble the transfer idiom.
NearMoves ==
    { <<"+", "+", "[", ">", "+", "<", "-", "]", ">", ".">>,
      <<"+", "[", "-", ">", "+", "<", "<", "]">>,
      <<"+", "[", "-", ">", ">", "+", "<", "]", ">", ".">>,
      <<"+", "[", "-", ">", "+", ">", "]">>,
      <<">", "+", "[", "-", "<", "+", "<", "]">>,
      <<"+", "+", "[", "-", "-", ">", "+", "<", "]", ">", ".">>,
      <<"+", "[", "-", ">", "+", "+", "<", "]", ">", ".">>,
      <<"+", "[", "+", ">", "+", "<", "]">>,
      <<"+", "[", "-", ">", "-", "<", "]", ">", ".">>,
      <<"+", "[", "-", ">", "+", "<", ".", "]">> }

\* Transfers over more than one cell.
Transfers ==
    { <<"+", "+", "[", "-", ">", ">", "+", "<", "<", "]", ">", ">", ".">>,
      <<">", ">", ">", "+", "[", "-", "<", "<", "<", "+", ">", ">", ">", "]", "<", "<", "<", ".">>,
      <<"+", "[", "[", "-", ">", ">", ">", "+", "<", "<", "<", "]", "]">> }

LongRunLen == 257

\* More increments in a row than a u8 cell has values.
LongRun == [i \in 1..LongRunLen |-> "+"] \o <<".">>

\* Programs whose cells wrap around, for every cell size.
Wraps ==
    { <<"-", "+", ".">>,
      <<"-", ".", "+", "+", "+", ".">>,
      <<"-", "-", "-", ".", "[", "+", "+", "+", "]", ".">>,
      <<",", ">", "-", "<", "[", "-", ">", "+", "<", "]", ">", ".">> }

\* Reads three bytes and writes each one back.
Echo == <<",", ".", ",", ".", ",", ".">>

\* Walks right one cell at a time, marking each cell it comes to.
Walk == <<"+", "[", ">", "+", "]">>

\* Loops inside loops and beside them: `[[][[]]][]`.
Nest == <<"[", "[", "]", "[", "[", "]", "]", "]", "[", "]">>

BigConfigs ==
    { Config(Hello, DefaultTape, DefaultCellSize, <<>>),
      Config(Times8, DefaultTape, DefaultCellSize, <<>>),
      Config(Stride3, BigTape, DefaultCellSize, <<>>),
      Config(Stride3, BigTape - (TapeGrowth \div 2), DefaultCellSize, <<>>),
      Config(Walk, DefaultTape, DefaultCellSize, <<>>),
      Config(Nest, MaxTape, DefaultCellSize, <<>>),
      Config(<<"+">> \o Nest, MaxTape, DefaultCellSize, <<>>),
      Config(<<"+", " ", "x", "+", "\n", ".">>, DefaultTape, DefaultCellSize, <<>>),
      Config(<<"+", ".">>, 0, DefaultCellSize, <<>>),
      Config(<<"+", ".">>, DefaultTape, 12, <<>>) }
    \cup { Config(src, MaxTape + 2, DefaultCellSize, <<>>) :
               src \in NearMoves \cup Transfers }
    \cup { Config(LongRun, MaxTape, w, <<>>) : w \in CellSizes }
    \cup { Config(src, MaxTape, w, input) :
               src \in Wraps, w \in CellSizes, input \in { <<>>, <<2>> } }
    \cup { Config(Echo, MaxTape, w, input) :
               w \in CellSizes, input \in { <<>>, <<255>>, <<200, 7>> } }

Configs == SmallConfigs \cup BigConfigs

(***************************************************************************)
(* main, for do_optimize = TRUE and do_optimize = FALSE side by side       *)
(***************************************************************************)
Init ==
    /\ \E c \in Configs :
          /\ raw = c.raw
          /\ tape_size = c.tape_size
          /\ cell_size = c.cell_size
          /\ stdin = c.stdin
    /\ pc = "parse"
    /\ ast = [do_optimize \in BOOLEAN |-> <<>>]
    /\ prev = <<>>
    /\ replace_vec = <<>>
    /\ run = [do_optimize \in BOOLEAN |-> NotExecuted("not started")]

Parse ==
    /\ pc = "parse"
    /\ ast' = [do_optimize \in BOOLEAN |-> parse(raw)]
    /\ pc' = "pass_collapse_duplicated"
    /\ UNCHANGED <<replace_vec, raw, tape_size, cell_size, stdin, prev, run>>

\* The passes of optimize; prev keeps the sequence the pass was given.
CollapseDuplicated ==
    /\ pc = "pass_collapse_duplicated"
    /\ prev' = ast[TRUE]
    /\ ast' = [ast EXCEPT ![TRUE] = pass_collapse_duplicated(ast[TRUE])]
    /\ pc' = "pass_zero_cell"
    /\ UNCHANGED <<replace_vec, raw, tape_size, cell_size, stdin, run>>

ZeroCellPass ==
    /\ pc = "pass_zero_cell"
    /\ prev' = ast[TRUE]
    /\ ast' = [ast EXCEPT ![TRUE] = pass_zero_cell(ast[TRUE])]
    /\ pc' = "pass_move_value"
    /\ UNCHANGED <<replace_vec, raw, tape_size, cell_size, stdin, run>>

MoveValue ==
    /\ pc = "pass_move_value"
    /\ prev' = ast[TRUE]
    /\ ast' = [ast EXCEPT ![TRUE] = pass_move_value(ast[TRUE])]
    /\ pc' = "link_loops"
    /\ UNCHANGED <<replace_vec, raw, tape_size, cell_size, stdin, run>>

LinkLoops ==
    /\ pc = "link_loops"
    /\ LET l == [do_optimize \in BOOLEAN |->
                    main_link(ast[do_optimize], tape_size, cell_size, stdin)]
       IN  /\ ast' = [do_optimize \in BOOLEAN |-> l[do_optimize].ast]
           /\ run' = [do_optimize \in BOOLEAN |-> l[do_optimize].run]
    /\ pc' = "execute"
    /\ UNCHANGED <<replace_vec, raw, tape_size, cell_size, stdin, prev>>

Running(do_optimize) == run[do_optimize].status = "running"

\* A run is followed until it has written MaxOutput bytes.
Followed(do_optimize) ==
    Running(do_optimize) /\ Len(run[do_optimize].stdout) < MaxOutput

\* One iteration of the dispatch loop in each run that is still going.
Execute ==
    /\ pc = "execute"
    /\ \E do_optimize \in BOOLEAN : Followed(do_optimize)
    /\ run' = [do_optimize \in BOOLEAN |->
                  IF Followed(do_optimize)
                  THEN execute_step(run[do_optimize], ast[do_optimize],
                                    tape_size, cell_size)
                  ELSE run[do_optimize]]
    /\ UNCHANGED <<replace_vec, raw, tape_size, cell_size, stdin, pc, ast, prev>>

Exit ==
    /\ pc = "execute"
    /\ \A do_optimize \in BOOLEAN : ~Running(do_optimize)
    /\ pc' = "exit"
    /\ UNCHANGED <<replace_vec, raw, tape_size, cell_size, stdin, ast, prev, run>>

Next ==
    \/ Parse
    \/ CollapseDuplicated
    \/ ZeroCellPass
    \/ MoveValue
    \/ LinkLoops
    \/ Execute
    \/ Exit

Spec == Init /\ [][Next]_vars

(***************************************************************************)
(* Properties                                                              *)
(***************************************************************************)
Optimized == run[TRUE]

Plain == run[FALSE]

Executing == pc \in {"execute", "exit"}

LinkErrors == {ErrUnmatchedEnd, ErrUnmatchedStart}

IsPrefix(s, t) == Len(s) <= Len(t) /\ SubSeq(t, 1, Len(s)) = s

\* The token a running run dispatches next.
Dispatched(do_optimize) ==
    At(ast[do_optimize], run[do_optimize].instruction_pointer)

HasToken(a, tk) == \E i \in 1..Len(a) : a[i].tk = tk

\* C1: for a source with balanced brackets, a supported cell size and a
\* tape size of at least 1, the run with optimization and the run without
\* have the same outcome: neither writes a byte the other does not write,
\* and once both have stopped they have stopped in the same way with the
\* same output.
C1_SameOutcome ==
    (/\ Executing
     /\ Plain.status \notin LinkErrors
     /\ tape_size >= 1
     /\ cell_size \in CellSizes)
    => /\ \/ IsPrefix(Optimized.stdout, Plain.stdout)
          \/ IsPrefix(Plain.stdout, Optimized.stdout)
       /\ pc = "exit" => /\ Optimized.status = Plain.status
                         /\ Optimized.stdout = Plain.stdout

\* C2: with 8-bit cells and no input, `+++.` writes the single byte 3 and
\* halts, and `++++++++[>++++++++<-]>.` writes the single byte 64 and
\* halts, with and without optimization.
EndToEnd(src, minTape, byte) ==
    (/\ raw = src
     /\ cell_size = 8
     /\ stdin = <<>>
     /\ tape_size >= minTape
     /\ Executing)
    => \A do_optimize \in BOOLEAN :
          /\ run[do_optimize].status \in {"running", "Ok"}
          /\ run[do_optimize].stdout \in { <<>>, <<byte>> }
          /\ run[do_optimize].status = "Ok" => run[do_optimize].stdout = <<byte>>
          /\ pc = "exit" => run[do_optimize].status = "Ok"

C2_EndToEnd == EndToEnd(Hello, 1, 3) /\ EndToEnd(Times8, 2, 64)

C2_Halted ==
    /\ raw = Times8
    /\ pc = "exit"
    /\ \A do_optimize \in BOOLEAN :
          run[do_optimize].status = "Ok" /\ run[do_optimize].stdout = <<64>>

\* One step of the run with the given do_optimize satisfies P(m, n, token),
\* m the state before, n the state after, token the instruction dispatched.
StepOf(do_optimize, P(_, _, _)) ==
    (pc = "execute" /\ Running(do_optimize)
        /\ run'[do_optimize] # run[do_optimize])
    => P(run[do_optimize], run'[do_optimize], Dispatched(do_optimize))

Went(m, n, pointer) ==
    /\ n.status = "running"
    /\ n.data_pointer = pointer
    /\ n.instruction_pointer = m.instruction_pointer + 1

BoundsChecked(m, n, token) ==
    /\ token.tk = "Right" =>
          IF m.data_pointer + token.value >= tape_size
          THEN n.status = ErrRight
          ELSE Went(m, n, m.data_pointer + token.value)
    /\ token.tk = "Left" =>
          IF m.data_pointer < token.value
          THEN n.status = ErrLeft
          ELSE Went(m, n, m.data_pointer - token.value)
    /\ (/\ token.tk = "Move"
        /\ InTape(m.cells, m.data_pointer)
        /\ ~is_zero(ReadCell(m.cells, m.data_pointer, cell_size))) =>
          /\ n.status = ErrLeft <=> m.data_pointer + token.value < 0
          /\ n.status = ErrRight <=> m.data_pointer + token.value >= tape_size

StoppedForGood(do_optimize) ==
    (Executing /\ ~Running(do_optimize)) => run'[do_optimize] = run[do_optimize]

\* C3: Right(k) stops the run with the right error exactly when
\* pointer + k >= T and otherwise moves the pointer to pointer + k; Left(k)
\* stops it with the left error exactly when pointer < k and otherwise moves
\* the pointer to pointer - k; Move(o) on a non-zero cell stops with the left
\* error exactly when pointer + o < 0 and with the right error exactly when
\* pointer + o >= T; a stopped run executes nothing more.
C3_Bounds ==
    [][\A do_optimize \in BOOLEAN :
          /\ StepOf(do_optimize, BoundsChecked)
          /\ StoppedForGood(do_optimize)]_vars

\* A Right(k) refused with pointer + k = T exactly.
C3_RefusedAtEdge ==
    \E do_optimize \in BOOLEAN :
        /\ Executing
        /\ run[do_optimize].status = ErrRight
        /\ Dispatched(do_optimize).tk = "Right"
        /\ run[do_optimize].data_pointer + Dispatched(do_optimize).value = tape_size

\* C4: while execute runs, and after it, 0 <= pointer < T.
C4_PointerInRange ==
    (Executing /\ tape_size >= 1)
    => \A do_optimize \in BOOLEAN :
          /\ 0 <= run[do_optimize].data_pointer
          /\ run[do_optimize].data_pointer < tape_size

\* A pointer on the last cell the tape size allows, having moved there.
C4_AtLastCell ==
    \E do_optimize \in BOOLEAN :
        /\ Running(do_optimize)
        /\ tape_size > 1
        /\ run[do_optimize].data_pointer = tape_size - 1

Grown(m, n, token) ==
    (/\ token.tk = "Right"
     /\ m.data_pointer + token.value > m.cells.len
     /\ m.data_pointer + token.value < tape_size)
    => /\ Went(m, n, m.data_pointer + token.value)
       /\ InTape(n.cells, n.data_pointer)
       /\ \A i \in m.cells.len..(n.cells.len - 1) :
              is_zero(ReadCell(n.cells, i, cell_size))
       /\ \A i \in 0..(m.cells.len - 1) :
              ReadCell(n.cells, i, cell_size) = ReadCell(m.cells, i, cell_size)

\* C5: a Right(k) whose target pointer + k is beyond the tape's length and
\* below T succeeds: the target becomes a cell of the tape, the cells added
\* read zero and the cells there before keep their values.
C5_Growth == [][\A do_optimize \in BOOLEAN : StepOf(do_optimize, Grown)]_vars

\* A run that has moved right past the initial tape.
C5_HasGrown ==
    \E do_optimize \in BOOLEAN :
        /\ Running(do_optimize)
        /\ run[do_optimize].cells.len > TapeGrowth
        /\ run[do_optimize].data_pointer > TapeGrowth
        /\ \E i \in DOMAIN run[do_optimize].cells.nz : i < TapeGrowth

(***************************************************************************)
(* Arithmetic modulo 2^w by counting: the successor and the predecessor    *)
(* of a cell value, wrapping at the ends, applied k times.                 *)
(***************************************************************************)
MaxDigit(w) == Base(w) - 1

Succ(v, w) ==
    IF \A i \in DOMAIN v : v[i] = MaxDigit(w) THEN [i \in DOMAIN v |-> 0]
    ELSE LET first == CHOOSE i \in DOMAIN v :
                          /\ v[i] # MaxDigit(w)
                          /\ \A j \in DOMAIN v : j < i => v[j] = MaxDigit(w)
         IN  [i \in DOMAIN v |->
                 IF i < first THEN 0 ELSE IF i = first THEN v[i] + 1 ELSE v[i]]

Pred(v, w) ==
    IF \A i \in DOMAIN v : v[i] = 0 THEN [i \in DOMAIN v |-> MaxDigit(w)]
    ELSE LET first == CHOOSE i \in DOMAIN v :
                          /\ v[i] # 0
                          /\ \A j \in DOMAIN v : j < i => v[j] = 0
         IN  [i \in DOMAIN v |->
                 IF i < first THEN MaxDigit(w)
                 ELSE IF i = first THEN v[i] - 1 ELSE v[i]]

\* One step of counting: up for Add, down for Sub.
Count(tk, v, w) == IF tk = "Add" THEN Succ(v, w) ELSE Pred(v, w)

RECURSIVE Times(_, _, _, _)
Times(tk, k, v, w) ==
    IF k = 0 THEN v
    ELSE IF k = 1 THEN Count(tk, v, w)
    ELSE LET half == Times(tk, k \div 2, v, w)
         IN  IF half = half THEN Times(tk, k - (k \div 2), half, w) ELSE half

OnlyCurrentCell(m, n, v) ==
    /\ n.status = "running"
    /\ n.data_pointer = m.data_pointer
    /\ n.cells.len = m.cells.len
    /\ ReadCell(n.cells, m.data_pointer, cell_size) = v
    /\ \A i \in (DOMAIN m.cells.nz \cup DOMAIN n.cells.nz) \ {m.data_pointer} :
           ReadCell(n.cells, i, cell_size) = ReadCell(m.cells, i, cell_size)

Counted(m, n, token) ==
    (token.tk \in {"Add", "Sub"} /\ InTape(m.cells, m.data_pointer))
    => /\ token.value >= 1
       /\ OnlyCurrentCell(m, n,
              Times(token.tk, token.value,
                    ReadCell(m.cells, m.data_pointer, cell_size), cell_size))

\* C6: Add(k) and Sub(k) replace the current cell v by (v + k) mod 2^width
\* and (v - k) mod 2^width, for the widths 8, 16, 32 and 64 and every
\* k >= 1, and change neither the pointer nor any other cell.
C6_Wrapping == [][\A do_optimize \in BOOLEAN : StepOf(do_optimize, Counted)]_vars

\* `-+.` with 64-bit cells: Sub(1) on 0, then Add(1) on 2^64 - 1, gives 0.
C6_Wrapped ==
    /\ raw = <<"-", "+", ".">>
    /\ cell_size = 64
    /\ pc = "exit"
    /\ Plain.status = "Ok"
    /\ Plain.stdout = <<0>>

(***************************************************************************)
(* Brackets, counted                                                       *)
(***************************************************************************)
CountIn(a, tk, n) == Cardinality({ i \in 1..n : a[i].tk = tk })

ClosesUnopened(a) ==
    \E n \in 1..Len(a) : CountIn(a, "LoopEnd", n) > CountIn(a, "LoopStart", n)

LeavesOpen(a) ==
    CountIn(a, "LoopStart", Len(a)) > CountIn(a, "LoopEnd", Len(a))

\* C7: link_loops fails with the unmatched-loop-end error exactly when some
\* prefix of the sequence holds more LoopEnd than LoopStart, otherwise with
\* the unmatched-loop-start error exactly when the whole sequence holds more
\* LoopStart than LoopEnd, and otherwise succeeds; after a link error no
\* instruction is executed and nothing is written.
C7_LinkErrors ==
    Executing
    => \A do_optimize \in BOOLEAN :
          LET a == ast[do_optimize]
              m == run[do_optimize]
          IN  /\ m.status = ErrUnmatchedEnd <=> ClosesUnopened(a)
              /\ m.status = ErrUnmatchedStart <=>
                     (~ClosesUnopened(a) /\ LeavesOpen(a))
              /\ m.status \in LinkErrors => m = NotExecuted(m.status)

Balanced(a) == ~ClosesUnopened(a) /\ ~LeavesOpen(a)

\* As many LoopStart as LoopEnd, and still an unmatched loop end.
C7_ClosedBeforeOpened ==
    /\ pc = "exit"
    /\ Plain.status = ErrUnmatchedEnd
    /\ Plain.stdout = <<>>
    /\ CountIn(ast[FALSE], "LoopStart", Len(ast[FALSE]))
           = CountIn(ast[FALSE], "LoopEnd", Len(ast[FALSE]))

(***************************************************************************)
(* The patterns of the zero-cell and the move pass, and the sequence with  *)
(* every occurrence of a pattern replaced.  Positions are those of TLA+    *)
(* sequences.                                                              *)
(***************************************************************************)
IsZeroLoopAt(a, i) ==
    /\ i + 2 <= Len(a)
    /\ a[i].tk = "LoopStart"
    /\ a[i + 1].tk \in {"Sub", "Add"}
    /\ a[i + 1].value % 2 = 1
    /\ a[i + 2].tk = "LoopEnd"

RECURSIVE ZeroLoopsReplaced(_, _)
ZeroLoopsReplaced(a, i) ==
    IF i > Len(a) THEN <<>>
    ELSE IF IsZeroLoopAt(a, i)
    THEN <<Token("Set", 0)>> \o ZeroLoopsReplaced(a, i + 3)
    ELSE <<a[i]>> \o ZeroLoopsReplaced(a, i + 1)

\* C8: the zero-cell pass, given the output of the duplicate-collapse pass,
\* replaces every range LoopStart, Sub(k) or Add(k) with k odd, LoopEnd by
\* Set(0), wherever it lies, and changes nothing else (stated for the
\* sources whose brackets balance, the ones main goes on to run).
C8_ZeroCellFires ==
    (pc = "pass_move_value" /\ Balanced(prev))
    => ast[TRUE] = ZeroLoopsReplaced(prev, 1)

Opposite(tk) == IF tk = "Left" THEN "Right" ELSE "Left"

IsMoveLoopAt(a, i) ==
    /\ i + 5 <= Len(a)
    /\ a[i].tk = "LoopStart"
    /\ a[i + 1] = Token("Sub", 1)
    /\ a[i + 2].tk \in {"Left", "Right"}
    /\ a[i + 3] = Token("Add", 1)
    /\ a[i + 4] = Token(Opposite(a[i + 2].tk), a[i + 2].value)
    /\ a[i + 5].tk = "LoopEnd"

MoveFor(step) ==
    Token("Move", IF step.tk = "Right" THEN step.value ELSE 0 - step.value)

RECURSIVE MoveLoopsReplaced(_, _)
MoveLoopsReplaced(a, i) ==
    IF i > Len(a) THEN <<>>
    ELSE IF IsMoveLoopAt(a, i)
    THEN <<MoveFor(a[i + 2])>> \o MoveLoopsReplaced(a, i + 6)
    ELSE <<a[i]>> \o MoveLoopsReplaced(a, i + 1)

\* C9: after optimize, every occurrence of LoopStart, Sub(1), Right(n),
\* Add(1), Left(n), LoopEnd has been replaced by Move(+n) and every
\* occurrence of LoopStart, Sub(1), Left(n), Add(1), Right(n), LoopEnd by
\* Move(-n), wherever the pattern starts (stated for the sources whose
\* brackets balance, the ones main goes on to run).
C9_MoveFires ==
    (pc = "link_loops" /\ Balanced(prev))
    => ast[TRUE] = MoveLoopsReplaced(prev, 1)

\* The six instructions a Move(o) stands for, as the tokenizer and the
\* duplicate-collapse pass produce them.
MoveLoop(o) ==
    LET n == IF o >= 0 THEN o ELSE 0 - o
        there == IF o >= 0 THEN "Right" ELSE "Left"
    IN  << Token("LoopStart", -1), Token("Sub", 1), Token(there, n),
           Token("Add", 1), Token(Opposite(there), n), Token("LoopEnd", -1) >>

RECURSIVE MovesExpanded(_)
MovesExpanded(a) ==
    IF a = <<>> THEN <<>>
    ELSE (IF Head(a).tk = "Move" THEN MoveLoop(Head(a).value) ELSE <<Head(a)>>)
             \o MovesExpanded(Tail(a))

\* C10: the move pass replaces a range only when it is exactly LoopStart,
\* Sub(1), Left|Right(n), Add(1), the opposite direction with the same n,
\* LoopEnd: putting the six instructions back for every Move gives the
\* sequence the pass was given, and a loop that only resembles the pattern
\* stays a loop and runs as the loop it is.
C10_MoveOnlyExact ==
    /\ pc = "link_loops" => MovesExpanded(ast[TRUE]) = prev
    /\ (raw \in NearMoves /\ pc \in {"link_loops", "execute", "exit"}) =>
           /\ ~HasToken(ast[TRUE], "Move")
           /\ HasToken(ast[TRUE], "LoopStart")
    /\ (raw \in NearMoves /\ pc = "exit") =>
           /\ Optimized.status = Plain.status
           /\ Optimized.stdout = Plain.stdout

\* `++[>+<-]>.`, the decrement last, has run as a loop and written 2.
C10_DecrementLast ==
    /\ raw = <<"+", "+", "[", ">", "+", "<", "-", "]", ">", ".">>
    /\ pc = "exit"
    /\ HasToken(ast[TRUE], "LoopStart")
    /\ Optimized.status = "Ok"
    /\ Optimized.stdout = <<2>>

(***************************************************************************)
(* pass_collapse_duplicated on any instruction sequence: instructions with *)
(* the payloads the passes can leave behind, closed by one End.  The pass   *)
(* is run twice on ast[TRUE]; ast[FALSE] keeps the sequence as given.       *)
(***************************************************************************)
MaxSeq == 4

Instructions ==
    { Token("Add", 1), Token("Add", 2), Token("Sub", 1), Token("Left", 1),
      Token("Right", 1), Token("Out", 0), Token("LoopStart", -1),
      Token("LoopEnd", -1), Token("Set", 0) }

\* Every sequence of at most n instructions, without the closing End.
RECURSIVE Bodies(_)
Bodies(n) ==
    IF n = 0 THEN { <<>> }
    ELSE LET shorter == Bodies(n - 1)
         IN  shorter \cup { Append(s, t) : s \in shorter, t \in Instructions }

InstructionSequences == { Append(s, Token("End", 0)) : s \in Bodies(MaxSeq) }

InitCollapse ==
    /\ raw = <<>>
    /\ tape_size = DefaultTape
    /\ cell_size = DefaultCellSize
    /\ stdin = <<>>
    /\ pc = "pass_collapse_duplicated"
    /\ \E a \in InstructionSequences : ast = [do_optimize \in BOOLEAN |-> a]
    /\ prev = <<>>
    /\ replace_vec = <<>>
    /\ run = [do_optimize \in BOOLEAN |-> NotExecuted("not started")]

CollapseAgain ==
    /\ pc = "pass_zero_cell"
    /\ prev' = ast[TRUE]
    /\ ast' = [ast EXCEPT ![TRUE] = pass_collapse_duplicated(ast[TRUE])]
    /\ pc' = "collapsed twice"
    /\ UNCHANGED <<replace_vec, raw, tape_size, cell_size, stdin, run>>

NextCollapse ==
    \/ CollapseDuplicated
    \/ CollapseAgain

SpecCollapse == InitCollapse /\ [][NextCollapse]_vars

\* C11: running the duplicate-collapse pass a second time changes nothing:
\* the sequence after two runs is the sequence after one.
C11_Idempotent == pc = "collapsed twice" => ast[TRUE] = prev

\* Two runs were collapsed by the first pass, and the pass has run again.
C11_CollapsedTwice ==
    /\ pc = "collapsed twice"
    /\ Len(ast[FALSE]) = Len(ast[TRUE]) + 2
    /\ \E i \in 1..Len(ast[TRUE]) : ast[TRUE][i] = Token("Sub", 2)
    /\ \E i \in 1..Len(ast[TRUE]) : ast[TRUE][i] = Token("Add", 2)

Consumed(m, n, token) ==
    (token.tk = "In" /\ InTape(m.cells, m.data_pointer))
    => /\ n.instruction_pointer = m.instruction_pointer + 1
       /\ n.stdout = m.stdout
       /\ IF m.stdin = <<>>
          THEN /\ n.stdin = <<>>
               /\ OnlyCurrentCell(m, n, ZeroCell(cell_size))
          ELSE /\ n.stdin = Tail(m.stdin)
               /\ Head(m.stdin) \in 0..255
               /\ OnlyCurrentCell(m, n,
                      Times("Add", Head(m.stdin), ZeroCell(cell_size), cell_size))

\* C12: In takes exactly one byte off the input and makes the current cell
\* that byte's value, 0..255, at every cell width; with the input used up
\* it makes the current cell 0; either way the run goes on with the next
\* instruction, and the pointer, the other cells and the output stay as
\* they are.
C12_In == [][\A do_optimize \in BOOLEAN : StepOf(do_optimize, Consumed)]_vars

\* With 64-bit cells and the input 200, 7: the bytes 200 and 7 read and
\* written back, then 0 for the input used up.
C12_ReadPastEnd ==
    /\ raw = Echo
    /\ cell_size = 64
    /\ stdin = <<200, 7>>
    /\ Plain.stdin = <<>>
    /\ Plain.stdout = <<200, 7, 0>>

(***************************************************************************)
(* Move(o) beside the loop it stands for: execute on the two sequences     *)
(* Move(o), End and LoopStart, Sub(1), Right|Left(n), Add(1),              *)
(* Left|Right(n), LoopEnd, End (linked), from the same tape and pointer.   *)
(* run[TRUE] executes the Move, run[FALSE] the loop.                       *)
(***************************************************************************)
MaxOffset == 2
MaxSource == 3

\* The largest value of a cell.
MaxCell(w) == [i \in 1..NDigits(w) |-> MaxDigit(w)]

CellOf(byte, w) == Times("Add", byte, ZeroCell(w), w)

\* execute in its loop, with the given pointer and tape.
Started(pointer, cells) ==
    [instruction_pointer |-> 0, data_pointer |-> pointer, cells |-> cells,
     stdin |-> <<>>, stdout |-> <<>>, status |-> "running"]

RECURSIVE Filled(_, _, _)
Filled(cells, n, v) ==
    IF n = 0 THEN cells ELSE Filled(WriteCell(cells, n - 1, v), n - 1, v)

\* A tape of the initial length whose first tapeSize cells hold 5, but for
\* the source cell at pointer and, if it is one of them, the destination.
MoveTape(pointer, dest, source, destination, tapeSize, w) ==
    LET filled == Filled(InitialCells(w), tapeSize, CellOf(5, w))
        aimed == IF 0 <= dest /\ dest < tapeSize
                 THEN WriteCell(filled, dest, destination) ELSE filled
    IN  WriteCell(aimed, pointer, source)

InitMove ==
    /\ raw = <<>>
    /\ stdin = <<>>
    /\ prev = <<>>
    /\ replace_vec = <<>>
    /\ pc = "execute"
    /\ tape_size = MaxOffset + 1
    /\ cell_size \in CellSizes
    /\ \E o \in ((0 - MaxOffset)..MaxOffset) \ {0} :
          /\ ast = [do_optimize \in BOOLEAN |->
                       IF do_optimize
                       THEN <<Token("Move", o), Token("End", 0)>>
                       ELSE link_loops(Append(MoveLoop(o), Token("End", 0))).ast]
          /\ \E pointer \in 0..MaxOffset, source \in 0..MaxSource,
                destination \in {ZeroCell(cell_size), CellOf(7, cell_size),
                                  MaxCell(cell_size)} :
                run = [do_optimize \in BOOLEAN |->
                          Started(pointer,
                                  MoveTape(pointer, pointer + o,
                                           CellOf(source, cell_size), destination,
                                           tape_size, cell_size))]

NextMove ==
    \/ Execute
    \/ Exit

SpecMove == InitMove /\ [][NextMove]_vars

\* The offset of the Move that run[TRUE] executes.
Offset == ast[TRUE][1].value

SameCells(c, d) ==
    /\ c.len = d.len
    /\ \A i \in DOMAIN c.nz \cup DOMAIN d.nz :
           ReadCell(c, i, cell_size) = ReadCell(d, i, cell_size)

\* What the loop run has come to, the Move run has come to.
MoveAsLoop ==
    (/\ pc = "exit"
     /\ 0 <= Optimized.data_pointer + Offset
     /\ Optimized.data_pointer + Offset < tape_size
     /\ InTape(Optimized.cells, Optimized.data_pointer + Offset))
    => /\ Optimized.status = "Ok"
       /\ Plain.status = "Ok"
       /\ Optimized.data_pointer = Plain.data_pointer
       /\ SameCells(Optimized.cells, Plain.cells)
       /\ Optimized.stdout = <<>>
       /\ Plain.stdout = <<>>

\* The step Move(o) takes, m before and n after.
Moved(m, n, token) ==
    LET p == m.data_pointer
        d == m.data_pointer + token.value
        source == ReadCell(m.cells, p, cell_size)
        \* the value of the source cell, which the model keeps in its low digit
        times == source[1]
    IN  (token.tk = "Move" /\ InTape(m.cells, p))
        => /\ \A i \in 2..NDigits(cell_size) : source[i] = 0
           /\ token.value # 0
           /\ is_zero(source) =>
                  n = [m EXCEPT !.instruction_pointer = m.instruction_pointer + 1]
           /\ (~is_zero(source) /\ 0 <= d /\ d < tape_size /\ InTape(m.cells, d)) =>
                  /\ n.status = "running"
                  /\ n.instruction_pointer = m.instruction_pointer + 1
                  /\ n.data_pointer = p
                  /\ n.stdout = m.stdout
                  /\ n.cells.len = m.cells.len
                  /\ ReadCell(n.cells, p, cell_size) = ZeroCell(cell_size)
                  /\ ReadCell(n.cells, d, cell_size)
                         = Times("Add", times, ReadCell(m.cells, d, cell_size),
                                 cell_size)
                  /\ \A i \in (DOMAIN m.cells.nz \cup DOMAIN n.cells.nz) \ {p, d} :
                         ReadCell(n.cells, i, cell_size) = ReadCell(m.cells, i, cell_size)

\* C13: with the destination d = p + o a cell of the tape and 0 <= d < T,
\* Move(o) leaves the state the loop LoopStart, Sub(1), Right|Left(n),
\* Add(1), Left|Right(n), LoopEnd leaves when it has run to its end:
\* cell[d] is (cell[d] + cell[p]) mod 2^width, cell[p] is 0, the pointer is
\* p, no other cell has changed and nothing is written.  On a zero cell
\* Move(o) changes nothing and does not fail, wherever d lies.
C13_MoveIsLoop == []MoveAsLoop /\ [][StepOf(TRUE, Moved)]_vars

\* 64-bit cells, destination 2^64 - 1, source 2: the Move has left 1 in the
\* destination while the loop, once round, has just taken it to 0.
C13_DestinationWraps ==
    /\ cell_size = 64
    /\ Optimized.status = "Ok"
    /\ ReadCell(Optimized.cells, Optimized.data_pointer + Offset, 64) = CellOf(1, 64)
    /\ Plain.status = "running"
    /\ Plain.instruction_pointer = 4
    /\ Plain.data_pointer = Optimized.data_pointer + Offset
    /\ ReadCell(Plain.cells, Plain.data_pointer, 64) = ZeroCell(64)
    /\ ReadCell(Plain.cells, Optimized.data_pointer, 64) = CellOf(1, 64)

(***************************************************************************)
(* The loop LoopStart, Sub(k) or Add(k), LoopEnd beside Set(0): execute on *)
(* the linked loop (run[FALSE]) and on Set(0), End (run[TRUE]) from the     *)
(* same tape and pointer.  The dispatch loop of execute never pauses, so   *)
(* a run that can take a step takes it: WF_vars(Execute).                  *)
(***************************************************************************)
MaxStep == 4

\* Steps of 2^width and 2^width + 1 for u8, and the even step that takes a
\* cell of 16 or 32 bits back to its value soonest.
WideSteps(w) ==
    IF w = 8 THEN {256, 257}
    ELSE IF w = 16 THEN {32768}
    ELSE IF w = 32 THEN {1073741824}
    ELSE {}

\* The starting values of the current cell: every value of a u8 cell, and
\* for the wider cells 1 and the values up to MaxSource steps short of 0.
StartValues(tk, k, w) ==
    IF w = 8 THEN { <<v>> : v \in 0..255 }
    ELSE IF k > MaxStep THEN { CellOf(1, w) }
    ELSE { Times((IF tk = "Sub" THEN "Add" ELSE "Sub"), j * k, ZeroCell(w), w) : j \in 0..MaxSource }

ZeroLoop(tk, k) ==
    << Token("LoopStart", -1), Token(tk, k), Token("LoopEnd", -1),
       Token("End", 0) >>

InitLoop ==
    /\ raw = <<>>
    /\ stdin = <<>>
    /\ prev = <<>>
    /\ replace_vec = <<>>
    /\ pc = "execute"
    /\ tape_size = MaxTape
    /\ cell_size \in CellSizes
    /\ \E tk \in {"Sub", "Add"}, k \in (1..MaxStep) \cup WideSteps(cell_size) :
          /\ ast = [do_optimize \in BOOLEAN |->
                       IF do_optimize
                       THEN <<Token("Set", 0), Token("End", 0)>>
                       ELSE link_loops(ZeroLoop(tk, k)).ast]
          /\ \E pointer \in 0..(MaxTape - 1), v \in StartValues(tk, k, cell_size) :
                run = [do_optimize \in BOOLEAN |->
                          Started(pointer,
                                  WriteCell(Filled(InitialCells(cell_size), MaxTape,
                                                   CellOf(5, cell_size)),
                                            pointer, v))]

NextLoop ==
    \/ Execute
    \/ Exit

SpecLoop == InitLoop /\ [][NextLoop]_vars /\ WF_vars(Execute)

\* The step k of the loop that run[FALSE] executes.
Step == ast[FALSE][2].value

OddCell(m) == ReadCell(m.cells, m.data_pointer, cell_size)[1] % 2 = 1

\* The loop, once over, has left what Set(0) leaves.
AsSet ==
    (Plain.status # "running" /\ Optimized.status # "running")
    => /\ Plain.status = "Ok"
       /\ Optimized.status = "Ok"
       /\ ReadCell(Plain.cells, Plain.data_pointer, cell_size) = ZeroCell(cell_size)
       /\ Plain.data_pointer = Optimized.data_pointer
       /\ SameCells(Plain.cells, Optimized.cells)
       /\ Plain.stdout = Optimized.stdout

\* C14: the loop LoopStart, Sub(k) or Add(k), LoopEnd comes to its end from
\* every starting value when k is odd; when k is even it never ends from
\* an odd starting value; and whenever it ends, the current cell is 0 and
\* the pointer, the other cells and the output are those Set(0) leaves.
C14_ZeroLoop ==
    /\ (Step % 2 = 1) => <>(Plain.status = "Ok")
    /\ []((Step % 2 = 0 /\ Running(FALSE) /\ OddCell(Plain)) => []Running(FALSE))
    /\ []AsSet

\* 64-bit cells: Add(3) has just taken the cell from 2^64 - 3 to 0, and the
\* loop is about to end.
C14_CountedUpToZero ==
    /\ cell_size = 64
    /\ ast[FALSE][2] = Token("Add", 3)
    /\ Running(FALSE)
    /\ Plain.instruction_pointer = 2
    /\ Current(Plain, 64) = ZeroCell(64)
    /\ Optimized.status = "Ok"

\* C15: an instruction that reads or writes a cell is only ever dispatched
\* with the pointer inside the tape as it is allocated then, and no run
\* ends by indexing a cell outside the tape (Move's destination included).
C15_CellAllocated ==
    Executing
    => \A do_optimize \in BOOLEAN :
          /\ run[do_optimize].status # Panic
          /\ (Running(do_optimize) /\ AccessesCell(Dispatched(do_optimize).tk))
                 => InTape(run[do_optimize].cells, run[do_optimize].data_pointer)

\* The loop instructions of a point to each other: positions from 0.
Paired(a) ==
    \A i \in 0..(Len(a) - 1) :
        LET j == At(a, i).value
        IN  /\ At(a, i).tk = "LoopStart" =>
                  /\ i < j
                  /\ j < Len(a)
                  /\ At(a, j) = Token("LoopEnd", i)
            /\ At(a, i).tk = "LoopEnd" =>
                  /\ 0 <= j
                  /\ j < i
                  /\ At(a, j) = Token("LoopStart", i)

\* Of two loops, the later one lies after the earlier or inside it.
Nested(a) ==
    \A i \in 0..(Len(a) - 1) :
        At(a, i).tk = "LoopStart"
        => \A k \in (i + 1)..(Len(a) - 1) :
              At(a, k).tk = "LoopStart"
              => \/ At(a, i).value < k
                 \/ At(a, k).value < At(a, i).value

\* link_loops has returned and execute has not yet dispatched an
\* instruction (execute never changes the sequence).
JustLinked(do_optimize) ==
    pc = "execute" /\ run[do_optimize].instruction_pointer = 0

\* C16: when link_loops succeeds, every LoopStart at i holds a j > i, the
\* instruction at j is a LoopEnd holding i, no loop instruction still
\* holds -1, and two pairs are either apart or one inside the other.
C16_Linked ==
    \A do_optimize \in BOOLEAN :
        (JustLinked(do_optimize) /\ run[do_optimize].status \notin LinkErrors)
        => /\ Paired(ast[do_optimize])
           /\ Nested(ast[do_optimize])

\* `[[][[]]][]` linked: the first loop closes at 7 and the last is (8, 9).
C16_NestedAndApart ==
    /\ raw = Nest
    /\ pc = "exit"
    /\ Plain.status = "Ok"
    /\ At(ast[FALSE], 0) = Token("LoopStart", 7)
    /\ At(ast[FALSE], 3) = Token("LoopStart", 6)
    /\ At(ast[FALSE], 9) = Token("LoopEnd", 8)

(***************************************************************************)
(* The loop instructions of a sequence, in order, and their matched pairs: *)
(* a LoopStart and the first LoopEnd after it at which as many loops have  *)
(* been closed as opened.                                                  *)
(***************************************************************************)
IsLoop(token) == token.tk \in {"LoopStart", "LoopEnd"}

Brackets(a) ==
    LET loops == SelectSeq(a, IsLoop)
    IN  [i \in 1..Len(loops) |-> loops[i].tk]

Depth(b, i, j) ==
    Cardinality({ k \in i..j : b[k] = "LoopStart" })
        - Cardinality({ k \in i..j : b[k] = "LoopEnd" })

MatchedPairs(b) ==
    { pair \in (1..Len(b)) \X (1..Len(b)) :
        /\ pair[1] < pair[2]
        /\ b[pair[1]] = "LoopStart"
        /\ b[pair[2]] = "LoopEnd"
        /\ Depth(b, pair[1], pair[2]) = 0
        /\ \A k \in pair[1]..(pair[2] - 1) : Depth(b, pair[1], k) > 0 }

RECURSIVE Kept(_, _, _)
Kept(b, keep, k) ==
    IF k > Len(b) THEN <<>>
    ELSE (IF k \in keep THEN <<b[k]>> ELSE <<>>) \o Kept(b, keep, k + 1)

\* b without the pairs of the set pairs.
Without(b, pairs) ==
    Kept(b, { k \in 1..Len(b) : \A pair \in pairs : k # pair[1] /\ k # pair[2] }, 1)

PairsDeleted(before, after) ==
    \E pairs \in SUBSET MatchedPairs(before) : Without(before, pairs) = after

OneEnd(a) ==
    /\ a # <<>>
    /\ a[Len(a)] = Token("End", 0)
    /\ \A i \in 1..(Len(a) - 1) : a[i].tk # "End"

AfterPass == pc \in {"pass_zero_cell", "pass_move_value", "link_loops"}

\* C17: each pass leaves, of the loop instructions it was given, all but
\* some whole matched pairs, in their order, and leaves one End, at the
\* end; link_loops then returns for the optimized sequence what it returns
\* for the sequence as parsed.
C17_BracketsKept ==
    /\ AfterPass => /\ PairsDeleted(Brackets(prev), Brackets(ast[TRUE]))
                    /\ OneEnd(ast[TRUE])
    /\ Executing => /\ Optimized.status = ErrUnmatchedEnd
                         <=> Plain.status = ErrUnmatchedEnd
                    /\ Optimized.status = ErrUnmatchedStart
                         <=> Plain.status = ErrUnmatchedStart

\* `[][-]`: the second loop has become Set(0), the first is still a loop,
\* and both sequences have linked.
C17_PairFolded ==
    /\ raw = <<"[", "]", "[", "-", "]">>
    /\ pc = "execute"
    /\ Brackets(ast[FALSE]) = <<"LoopStart", "LoopEnd", "LoopStart", "LoopEnd">>
    /\ Brackets(ast[TRUE]) = <<"LoopStart", "LoopEnd">>
    /\ Optimized.status = "running"
    /\ Plain.status = "running"

(***************************************************************************)
(* The runs of a sequence: from position i, the instructions of the same   *)
(* kind that follow one another, for the kinds Add, Sub, Left and Right.   *)
(***************************************************************************)
RunEnd(a, i) ==
    IF a[i].tk \notin {"Add", "Sub", "Left", "Right"} THEN i
    ELSE CHOOSE j \in i..Len(a) :
             /\ \A k \in i..j : a[k].tk = a[i].tk
             /\ j < Len(a) => a[j + 1].tk # a[i].tk

RECURSIVE RunsCollapsed(_, _)
RunsCollapsed(a, i) ==
    IF i > Len(a) THEN <<>>
    ELSE LET j == RunEnd(a, i)
             r == j - i + 1
         IN  <<(IF r >= 2 THEN Token(a[i].tk, r) ELSE a[i])>>
                 \o RunsCollapsed(a, j + 1)

\* C18: on a sequence from the tokenizer, pass_collapse_duplicated puts one
\* instruction with payload r for every run of r >= 2 instructions of the
\* same kind among Add, Sub, Left, Right, be it the run just before End,
\* and leaves every other instruction, a run of one among them, as it is
\* and where it is.
C18_RunsCollapsed ==
    pc = "pass_zero_cell" => (prev = parse(raw) /\ ast[TRUE] = RunsCollapsed(prev, 1))

\* `-<<`: the run of one stays, the run of two before End becomes Left(2).
C18_RunBeforeEnd ==
    /\ raw = <<"-", "<", "<">>
    /\ pc = "pass_zero_cell"
    /\ ast[TRUE] = <<Token("Sub", 1), Token("Left", 2), Token("End", 0)>>

(***************************************************************************)
(* replace_in_ast on a sequence and a list of replacements as its contract *)
(* has them: ranges start..end with start < end <= length, in ascending    *)
(* order and apart.  The replacement for the range at start is Set(start), *)
(* so that each is told from the others.                                   *)
(***************************************************************************)
\* Every such list of ranges within from..n.
RECURSIVE Ranges(_, _)
Ranges(from, n) ==
    { <<>> } \cup
    UNION { UNION { { <<Replacement(start, end, Token("Set", start))>> \o rest :
                        rest \in Ranges(end, n) } :
                    end \in (start + 1)..n } :
            start \in from..(n - 1) }

\* Numbered(n): n instructions, no two alike, and End.
Numbered(n) == [i \in 1..(n + 1) |-> IF i <= n THEN Token("Add", i) ELSE Token("End", 0)]

Replaceable ==
    { Numbered(n) : n \in 0..MaxSeq }
    \cup { Append(a, Token("End", 0)) :
              a \in UNION { [1..n -> {Token("Add", 1), Token("Out", 0)}] :
                               n \in 1..MaxSeq } }

InitReplace ==
    /\ raw = <<>>
    /\ tape_size = DefaultTape
    /\ cell_size = DefaultCellSize
    /\ stdin = <<>>
    /\ pc = "replace_in_ast"
    /\ \E a \in Replaceable :
          /\ ast = [do_optimize \in BOOLEAN |-> a]
          /\ replace_vec \in Ranges(0, Len(a))
    /\ prev = <<>>
    /\ run = [do_optimize \in BOOLEAN |-> NotExecuted("not started")]

ReplaceInAst ==
    /\ pc = "replace_in_ast"
    /\ prev' = ast[TRUE]
    /\ ast' = [ast EXCEPT ![TRUE] = replace_in_ast(ast[TRUE], replace_vec)]
    /\ pc' = "replaced"
    /\ UNCHANGED <<replace_vec, raw, tape_size, cell_size, stdin, run>>

NextReplace == ReplaceInAst

SpecReplace == InitReplace /\ [][NextReplace]_vars

\* The replacements read against the sequence a as it was given: from
\* position i on (from 0), a range's replacement where a range starts and
\* the instruction of a elsewhere.
RECURSIVE Replaced(_, _, _)
Replaced(a, reps, i) ==
    IF i >= Len(a) THEN <<>>
    ELSE IF \E k \in 1..Len(reps) : reps[k].start = i
    THEN LET r == reps[CHOOSE k \in 1..Len(reps) : reps[k].start = i]
         IN  <<r.token>> \o Replaced(a, reps, r.end)
    ELSE <<At(a, i)>> \o Replaced(a, reps, i + 1)

\* C19: replace_in_ast, given ranges in ascending order and apart with
\* start < end <= length, leaves the sequence in which every range, read
\* against the sequence as given, has become its one replacement and every
\* instruction outside the ranges is kept in its place among the others.
C19_Replaced ==
    pc = "replaced" => ast[TRUE] = Replaced(prev, replace_vec, 0)

\* Two ranges of two out of five instructions: Set(0), the third
\* instruction, Set(3).
C19_TwoRanges ==
    /\ pc = "replaced"
    /\ prev = Numbered(4)
    /\ Len(replace_vec) = 2
    /\ ast[TRUE] = <<Token("Set", 0), Token("Add", 3), Token("Set", 3)>>

(***************************************************************************)
(* The loop a loop instruction belongs to, found by counting: positions    *)
(* from 0, as the instruction pointer counts them.                         *)
(***************************************************************************)
LoopDepth(a, i, j) ==
    Cardinality({ k \in i..j : At(a, k).tk = "LoopStart" })
        - Cardinality({ k \in i..j : At(a, k).tk = "LoopEnd" })

MatchingEnd(a, i) ==
    CHOOSE j \in (i + 1)..(Len(a) - 1) :
        /\ At(a, j).tk = "LoopEnd"
        /\ LoopDepth(a, i, j) = 0
        /\ \A k \in i..(j - 1) : LoopDepth(a, i, k) > 0

MatchingStart(a, j) ==
    CHOOSE i \in 0..(j - 1) :
        /\ At(a, i).tk = "LoopStart"
        /\ LoopDepth(a, i, j) = 0
        /\ \A k \in (i + 1)..j : LoopDepth(a, k, j) < 0

\* The step of the run with the given do_optimize moves the instruction
\* pointer as the instruction dispatched has it.
Jumped(do_optimize) ==
    LET a == ast[do_optimize]
        m == run[do_optimize]
        n == run'[do_optimize]
        token == Dispatched(do_optimize)
        zero == is_zero(ReadCell(m.cells, m.data_pointer, cell_size))
    IN  (pc = "execute" /\ Running(do_optimize) /\ n # m)
        => /\ n.status = "Ok" <=> token.tk = "End"
           /\ (n.status = "running" /\ InTape(m.cells, m.data_pointer)) =>
                  n.instruction_pointer =
                      IF token.tk = "LoopStart" /\ zero
                      THEN MatchingEnd(a, m.instruction_pointer) + 1
                      ELSE IF token.tk = "LoopEnd" /\ ~zero
                      THEN MatchingStart(a, m.instruction_pointer) + 1
                      ELSE m.instruction_pointer + 1
           /\ (token.tk \in {"LoopStart", "LoopEnd"}
                   /\ InTape(m.cells, m.data_pointer)) =>
                  n = [m EXCEPT !.instruction_pointer = n.instruction_pointer]

InsideSequence ==
    \A do_optimize \in BOOLEAN :
        Running(do_optimize)
        => /\ 0 <= run[do_optimize].instruction_pointer
           /\ run[do_optimize].instruction_pointer < Len(ast[do_optimize])

\* C20: LoopStart on a zero cell is followed by the instruction after the
\* matching LoopEnd, with nothing of the loop executed; LoopEnd on a
\* non-zero cell is followed by the first instruction of the loop; any
\* other step that does not end the run moves the instruction pointer on
\* by 1; and the instruction pointer stays inside the sequence until End
\* ends the run.
C20_Jumps ==
    /\ []InsideSequence
    /\ [][\A do_optimize \in BOOLEAN : Jumped(do_optimize)]_vars

\* `++++++++[>++++++++<-]>.` once round its loop: LoopEnd, on 7, has sent
\* the run back to the first instruction of the loop, at 9.
C20_Repeated ==
    /\ raw = Times8
    /\ Running(FALSE)
    /\ Plain.instruction_pointer = 9
    /\ Plain.data_pointer = 0
    /\ ReadCell(Plain.cells, 0, cell_size) = CellOf(7, cell_size)
    /\ ReadCell(Plain.cells, 1, cell_size) = CellOf(8, cell_size)

\* C21: while execute runs, the tape is never longer than the maximum tape
\* length T.
C21_TapeWithinLimit ==
    Executing
    => \A do_optimize \in BOOLEAN :
          run[do_optimize].status \notin (LinkErrors \cup {ErrCellSize, ErrTapeSize})
          => run[do_optimize].cells.len <= tape_size

=============================================================================
